---- MODULE Spec2Model ----
(***************************************************************************)
(* Host-orchestrated multi-pass LSD radix sort of cloud_sort               *)
(* (src/opencl_sort.cpp, run_opencl_radix).                                *)
(*                                                                         *)
(* The host program is modelled statement group by statement group; every  *)
(* OpenCL call is one step.  The two device kernels (build_group_histogram *)
(* and scatter_stable) are loaded at run time from                         *)
(* ../kernels/radix_kernels.cl (opencl_sort.cpp:70); they are modelled     *)
(* from their contracts in spec.md sections 4.2 and 4.3.                   *)
(*                                                                         *)
(* Scaling.  The source sorts 64-bit keys with BITS = 8 and LOCAL_SZ = 256.*)
(* The model keeps every formula of the source and scales the three        *)
(* numbers down (KEY_BITS, BITS, LOCAL_SZ below) so that several groups,   *)
(* a partial last group and several passes are explored exhaustively.      *)
(***************************************************************************)
EXTENDS Integers, Sequences, FiniteSets, TLC

(***************************************************************************)
(* Bounds of the model.                                                    *)
(***************************************************************************)
\* width of a key in bits (the literal 64 of opencl_sort.cpp:44)
KEY_BITS == 7
\* digit width (8 in opencl_sort.cpp:39)
BITS == 2
\* lanes per work group (256 in opencl_sort.cpp:41)
LOCAL_SZ == 2
\* largest input length explored
MaxN == 3
\* input keys are the multiples 0 .. MaxKey of KeySpread (mod 2^KEY_BITS)
MaxKey == 3
KeySpread == 27
\* number of OpenCL calls the environment may make fail in one run (SpecFault)
MaxFaults == 1
MaxCalls == 2
LSB_BITS == 2

(***************************************************************************)
(* Program constants.                                                      *)
(***************************************************************************)
\* sizeof(cl_ulong)
SIZEOF_ULONG == 8
\* sizeof(cl_uint), sizeof(uint32_t)
SIZEOF_UINT == 4
\* std::exit(1) on a verification mismatch
EXIT_MISMATCH == 1

RECURSIVE Pow2(_)
Pow2(n) == IF n = 0 THEN 1 ELSE 2 * Pow2(n - 1)

RADIX == Pow2(BITS)
PASSES == (KEY_BITS + BITS - 1) \div BITS
\* variant: the group count is rounded down
NumGroupsFloor(n) == n \div LOCAL_SZ

NUM_GROUPS(n) == (n + LOCAL_SZ - 1) \div LOCAL_SZ

GLOBAL_SZ(n) == NUM_GROUPS(n) * LOCAL_SZ

\* keys an input may hold: KEY_BITS-bit unsigned values whose digits differ
\* from position to position (27 = 0123, 54 = 0312, 81 = 1101 in base 4)
Keys == {(i * KeySpread) % Pow2(KEY_BITS) : i \in 0 .. MaxKey}

\* the two device key buffers, named after the handle each is first bound to:
\* "A" is created at opencl_sort.cpp:82 (buf_in), "B" at :85 (buf_out)
Buffers == {"A", "B"}

\* A buffer element: the key, and the position the key had in the input.
\* The position is a history tag (spec.md section 8, "sorting key/index
\* pairs"); no step of the program reads it.
Elem(k, i) == [key |-> k, id |-> i]
KeysOf(s) == [i \in 1 .. Len(s) |-> s[i].key]
Tagged(s) == [i \in 1 .. Len(s) |-> Elem(s[i], i)]
Zeros(n) == [i \in 1 .. n |-> Elem(0, 0)]
ZeroArray(n) == [i \in 0 .. n - 1 |-> 0]

(***************************************************************************)
(* std::sort of the reference copy (opencl_sort.cpp:47-48), computed as an *)
(* insertion sort.                                                         *)
(***************************************************************************)
RECURSIVE InsertKey(_, _)
InsertKey(s, k) ==
    IF s = <<>> THEN <<k>>
    ELSE IF k <= Head(s) THEN <<k>> \o s
    ELSE <<Head(s)>> \o InsertKey(Tail(s), k)

RECURSIVE SortKeys(_)
SortKeys(s) == IF s = <<>> THEN <<>> ELSE InsertKey(SortKeys(Tail(s)), Head(s))

(***************************************************************************)
(* Digit extraction: (key >> shift) & (RADIX - 1).                         *)
(***************************************************************************)
Digit(k, shift) == (k \div Pow2(shift)) % RADIX

(***************************************************************************)
(* Device Histogram Stage (spec.md 4.2).  One lane per global id; a lane   *)
(* past n counts nothing.  Returns the flat (group * RADIX + digit) array. *)
(***************************************************************************)
GroupHistogram(buf, n, shift) ==
    [idx \in 0 .. NUM_GROUPS(n) * RADIX - 1 |->
        Cardinality({gid \in 0 .. GLOBAL_SZ(n) - 1 :
            /\ gid < n
            /\ gid \div LOCAL_SZ = idx \div RADIX
            /\ Digit(buf[gid + 1].key, shift) = idx % RADIX})]

(***************************************************************************)
(* Host offset computation (opencl_sort.cpp:124-141).                      *)
(***************************************************************************)
RECURSIVE SumGroups(_, _, _)
\* sum += gh[g * RADIX + d] for g = 0 .. ng-1
SumGroups(h, d, ng) ==
    IF ng = 0 THEN 0 ELSE SumGroups(h, d, ng - 1) + h[(ng - 1) * RADIX + d]

BucketTotals(h, ng) == [d \in 0 .. RADIX - 1 |-> SumGroups(h, d, ng)]

RECURSIVE PrefixAt(_, _)
\* pg[0] = 0; pg[d] = pg[d-1] + bt[d-1]
PrefixAt(b, d) == IF d = 0 THEN 0 ELSE PrefixAt(b, d - 1) + b[d - 1]

\* variant: an inclusive prefix sum, pg[d] = bt[0] + ... + bt[d]
GlobalPrefixInclusive(b) == [d \in 0 .. RADIX - 1 |-> PrefixAt(b, d) + b[d]]

GlobalPrefix(b) == [d \in 0 .. RADIX - 1 |-> PrefixAt(b, d)]

\* variant: the groups are walked from the last to the first
GroupOffsetsDescending(h, ng) ==
    [idx \in 0 .. ng * RADIX - 1 |->
        SumGroups(h, idx % RADIX, ng) - SumGroups(h, idx % RADIX, idx \div RADIX + 1)]

\* variant: the running sum is stored after the group's count is added
GroupOffsetsInclusive(h, ng) ==
    [idx \in 0 .. ng * RADIX - 1 |-> SumGroups(h, idx % RADIX, idx \div RADIX + 1)]

\* variant: every group starts at the front of its digit's bucket
GroupOffsetsZero(h, ng) == [idx \in 0 .. ng * RADIX - 1 |-> 0]

\* go[g * RADIX + d] = running sum of gh[g' * RADIX + d] over g' < g
GroupOffsets(h, ng) ==
    [idx \in 0 .. ng * RADIX - 1 |-> SumGroups(h, idx % RADIX, idx \div RADIX)]

(***************************************************************************)
(* Device Scatter Stage (spec.md 4.3).                                     *)
(***************************************************************************)
\* rank of lane gid among the lanes of its group with the same digit
Rank(buf, shift, gid) ==
    Cardinality({j \in 0 .. gid - 1 :
        /\ j \div LOCAL_SZ = gid \div LOCAL_SZ
        /\ Digit(buf[j + 1].key, shift) = Digit(buf[gid + 1].key, shift)})

\* destination index of the key of lane gid
DestIndex(buf, p, o, shift, gid) ==
    LET d == Digit(buf[gid + 1].key, shift)
        g == gid \div LOCAL_SZ
    IN  p[d] + o[g * RADIX + d] + Rank(buf, shift, gid)

\* every in-range lane writes inside the destination and no two lanes collide
ScatterDefined(buf, p, o, n, shift) ==
    /\ DOMAIN o = 0 .. NUM_GROUPS(n) * RADIX - 1
    /\ \A gid \in 0 .. n - 1 : DestIndex(buf, p, o, shift, gid) \in 0 .. n - 1
    /\ \A a, b \in 0 .. n - 1 :
          a # b => DestIndex(buf, p, o, shift, a) # DestIndex(buf, p, o, shift, b)

\* the destination after the dispatch: lanes gid < n write, the others do not
ScatterResult(buf, old, p, o, n, shift) ==
    [t \in 1 .. n |->
        LET W == {gid \in 0 .. GLOBAL_SZ(n) - 1 :
                     gid < n /\ DestIndex(buf, p, o, shift, gid) = t - 1}
        IN  IF W = {} THEN old[t] ELSE buf[(CHOOSE gid \in W : TRUE) + 1]]

(***************************************************************************)
(* State.                                                                  *)
(***************************************************************************)
VARIABLES
    ndebug,      \* the build compiles assert() out (NDEBUG)
    faults,      \* OpenCL calls the environment may still make fail
    N, in,       \* the arguments of run_opencl_radix (N = in.size())
    cpu, out,    \* the sorted reference and the result vector
    pc, pass,    \* position in run_opencl_radix and the loop counter
    devOk,       \* platform, device, context and queue are valid
    progOk,      \* the program is built and both kernels exist
    bufOk,       \* the five device buffers exist
    buf_in, buf_out,          \* the two swapped cl_mem handles
    mem,                      \* contents of the key buffers "A" and "B"
    written,                  \* device buffers whose contents are defined
    dev_gh, dev_pg, dev_go,   \* contents of buf_gh, buf_pg, buf_go
    gh, bt, pg, go,           \* the host arrays
    kh_args, ks_args,         \* arguments bound to the kernels kh and ks
    total_host_to_device, total_device_to_host,
    moved_h2d, moved_d2h,     \* history: bytes really moved in each direction
    failed,                   \* history: some OpenCL call reported an error
    scattered,                \* history: what the last scatter dispatch did
    dropped,                  \* history: writes to a read-only buffer were lost
    passReported, totalsReported, exitCode,
    calls,       \* how many times run_opencl_radix has been entered
    width,       \* radix_sort_single_lsb: sizeof(T) * 8
    src, dst,    \* radix_sort_single_lsb: the two swapped pointers
    hist, offsets, lsb_i,     \* its histogram, its offsets, its loop index i
    arr,         \* the arrays its arguments in and out point to
    lanes,       \* lanes of the running histogram kernel that have executed
    cq,          \* commands enqueued on q that the device has not started
    running,     \* the command the device is executing, or <<>>
    host,        \* "ready", or "blocked" inside a blocking call
    log          \* history: starts and ends of the steps of the passes

vars == <<ndebug, faults, N, in, cpu, out, pc, pass, devOk, progOk, bufOk,
          buf_in, buf_out, mem, written, dev_gh, dev_pg, dev_go, gh, bt, pg,
          go, kh_args, ks_args, total_host_to_device, total_device_to_host,
          moved_h2d, moved_d2h, failed, scattered, dropped, passReported,
          totalsReported, exitCode, calls, width, src, dst, hist, offsets,
          lsb_i, arr, lanes, cq, running, host, log>>

lsbVars == <<width, src, dst, hist, offsets, lsb_i, arr>>
queueVars == <<cq, running, host, log>>
inputVars == <<ndebug, N, in, calls, lsbVars, lanes, queueVars>>
hostVars == <<gh, bt, pg, go>>
handleVars == <<buf_in, buf_out>>
setupVars == <<devOk, progOk, bufOk>>
keyBufVars == <<mem, written>>
tableVars == <<dev_gh, dev_pg, dev_go>>
argVars == <<kh_args, ks_args>>
counterVars == <<total_host_to_device, total_device_to_host, moved_h2d, moved_d2h>>
reportVars == <<passReported, totalsReported, exitCode>>
scatterVars == <<scattered, dropped>>

\* kernel arguments before the first clSetKernelArg
NoArgs == [set |-> FALSE, src |-> "A", dst |-> "A", shift |-> 0]

\* buf_in is created CL_MEM_READ_ONLY (opencl_sort.cpp:82), buf_out
\* CL_MEM_READ_WRITE (:85)
ReadOnly(b) == b = "A"

\* variant: the handles are not exchanged
SwapBuffersNot(a, b) == <<a, b>>

\* std::swap(buf_in, buf_out)
SwapBuffers(a, b) == <<b, a>>

\* for (...; pass < PASSES; ++pass)
LoopHead(p) == IF p < PASSES THEN "reset" ELSE "read_result"

\* what the environment may answer to a call that can succeed
Env == IF faults > 0 THEN BOOLEAN ELSE {TRUE}

\* the budget left after a call whose preconditions `pre` held answered `e`
Spend(pre, e) == IF pre /\ ~e THEN faults - 1 ELSE faults

\* assert(err == CL_SUCCESS): aborts unless compiled out
AfterAssert(ok, next) == IF ok \/ ndebug THEN next ELSE "aborted"

\* the locals and the counters of run_opencl_radix before its first statement
OpenclIdle ==
    /\ cpu = <<>>
    /\ out = <<>>
    /\ pass = 0
    /\ devOk = FALSE /\ progOk = FALSE /\ bufOk = FALSE
    /\ buf_in = "A" /\ buf_out = "B"
    /\ mem = [b \in Buffers |-> <<>>]
    /\ written = {}
    /\ dev_gh = <<>> /\ dev_pg = <<>> /\ dev_go = <<>>
    /\ gh = <<>> /\ bt = <<>> /\ pg = <<>> /\ go = <<>>
    /\ kh_args = NoArgs /\ ks_args = NoArgs
    /\ total_host_to_device = 0 /\ total_device_to_host = 0
    /\ moved_h2d = 0 /\ moved_d2h = 0
    /\ failed = FALSE
    /\ scattered = "none" /\ dropped = FALSE
    /\ passReported = FALSE /\ totalsReported = FALSE /\ exitCode = 0
    /\ calls = 1

\* radix_sort_single_lsb is not running
LsbIdle ==
    /\ width = 0
    /\ src = "in" /\ dst = "out"
    /\ hist = <<>> /\ offsets = <<>> /\ lsb_i = 0
    /\ arr = [p \in {"in", "out"} |-> <<>>]

\* the command queue seen one call at a time, as run_opencl_radix uses it
QueueIdle == cq = <<>> /\ running = <<>> /\ host = "ready" /\ log = <<>>

InitCommon ==
    /\ ndebug \in BOOLEAN
    /\ N \in 0 .. MaxN
    /\ in \in [1 .. N -> Keys]
    /\ pc = "entry"
    /\ OpenclIdle
    /\ LsbIdle
    /\ lanes = {}
    /\ QueueIdle

\* every OpenCL call that can succeed does
Init == InitCommon /\ faults = 0

\* the environment may make up to MaxFaults calls fail
InitFault == InitCommon /\ faults \in 0 .. MaxFaults

(***************************************************************************)
(* opencl_sort.cpp:39-49 and 98-103: constants, reference copy, host arrays*)
(***************************************************************************)
Entry ==
    /\ pc = "entry"
    /\ cpu' = SortKeys(in)
    /\ out' = Zeros(N)
    /\ gh' = ZeroArray(NUM_GROUPS(N) * RADIX)
    /\ bt' = ZeroArray(RADIX)
    /\ pg' = ZeroArray(RADIX)
    /\ go' = ZeroArray(NUM_GROUPS(N) * RADIX)
    /\ pass' = 0
    /\ pc' = "discover"
    /\ UNCHANGED <<inputVars, faults, setupVars, handleVars, keyBufVars,
                   tableVars, argVars, counterVars, failed, scatterVars,
                   reportVars>>

(***************************************************************************)
(* :52-60 platform and device discovery.  No return value is looked at;    *)
(* with no platform or no GPU, ps[0] / ds[0] index an empty vector, which  *)
(* is undefined: the run crashes or goes on with an invalid handle.        *)
(***************************************************************************)
Discover ==
    /\ pc = "discover"
    /\ \E e \in Env, crash \in BOOLEAN :
        /\ e => ~crash
        /\ devOk' = e
        /\ failed' = (failed \/ ~e)
        /\ faults' = Spend(TRUE, e)
        /\ pc' = IF crash THEN "undefined" ELSE "context"
    /\ UNCHANGED <<inputVars, cpu, out, pass, progOk, bufOk, handleVars,
                   keyBufVars, tableVars, hostVars, argVars, counterVars,
                   scatterVars, reportVars>>

(***************************************************************************)
(* :62-67 context and queue, each followed by an assert.                   *)
(***************************************************************************)
CreateContext ==
    /\ pc = "context"
    /\ \E e \in Env :
        LET ok == devOk /\ e IN
        /\ devOk' = ok
        /\ failed' = (failed \/ ~ok)
        /\ faults' = Spend(devOk, e)
        /\ pc' = AfterAssert(ok, "build")
    /\ UNCHANGED <<inputVars, cpu, out, pass, progOk, bufOk, handleVars,
                   keyBufVars, tableVars, hostVars, argVars, counterVars,
                   scatterVars, reportVars>>

(***************************************************************************)
(* :69-79 load, create and build the program, create both kernels.         *)
(***************************************************************************)
BuildProgram ==
    /\ pc = "build"
    /\ \E e \in Env :
        LET ok == devOk /\ e IN
        /\ progOk' = ok
        /\ failed' = (failed \/ ~ok)
        /\ faults' = Spend(devOk, e)
        /\ pc' = AfterAssert(ok, "alloc")
    /\ UNCHANGED <<inputVars, cpu, out, pass, devOk, bufOk, handleVars,
                   keyBufVars, tableVars, hostVars, argVars, counterVars,
                   scatterVars, reportVars>>

(***************************************************************************)
(* :81-96 the five clCreateBuffer calls.  buf_in is created with           *)
(* CL_MEM_COPY_HOST_PTR: creating it copies the N input keys to the        *)
(* device.  clCreateBuffer of size 0 returns CL_INVALID_BUFFER_SIZE.       *)
(***************************************************************************)
AllocBuffers ==
    /\ pc = "alloc"
    /\ \E e \in Env :
        LET pre == devOk /\ N > 0
            ok == pre /\ e
        IN
        /\ bufOk' = ok
        /\ failed' = (failed \/ ~ok)
        /\ faults' = Spend(pre, e)
        /\ mem' = IF ok THEN [b \in Buffers |-> IF b = "A" THEN Tagged(in) ELSE Zeros(N)]
                  ELSE mem
        /\ written' = IF ok THEN {"A"} ELSE written
        /\ dev_gh' = IF ok THEN ZeroArray(NUM_GROUPS(N) * RADIX) ELSE dev_gh
        /\ dev_pg' = IF ok THEN ZeroArray(RADIX) ELSE dev_pg
        /\ dev_go' = IF ok THEN ZeroArray(NUM_GROUPS(N) * RADIX) ELSE dev_go
        /\ moved_h2d' = IF ok THEN moved_h2d + N * SIZEOF_ULONG ELSE moved_h2d
        /\ pc' = AfterAssert(ok, LoopHead(pass))
    /\ UNCHANGED <<inputVars, cpu, out, pass, devOk, progOk, handleVars,
                   hostVars, argVars, total_host_to_device,
                   total_device_to_host, moved_d2h, scatterVars, reportVars>>

(***************************************************************************)
(* The pass loop, opencl_sort.cpp:105-161.                                 *)
(*                                                                         *)
(* ENQUEUE_WRITE / ENQUEUE_READ (:15-27) add the size to the counter       *)
(* first, then make the blocking call, then assert its result.             *)
(***************************************************************************)
Shift(p) == p * BITS

\* bytes of the transfers, as the call sites compute them
GhBytes == NUM_GROUPS(N) * RADIX * SIZEOF_UINT
PgBytes == RADIX * SIZEOF_UINT
KeyBytes == N * SIZEOF_ULONG

\* the counter an ENQUEUE_WRITE of sz bytes leaves in total_host_to_device
WriteCount(c, sz) == c + sz
\* variant: a download is taken off the counter
ReadCountSubtract(c, sz) == c - sz

\* the counter an ENQUEUE_READ of sz bytes leaves in total_device_to_host
ReadCount(c, sz) == c + sz

\* variant: the histogram storage keeps what the pass before left in it
HistResetKept(old) == old

\* the contents the zero vector (:103) gives buf_gh
HistReset(old) == [idx \in DOMAIN old |-> 0]

\* :108-110 zero per-group hist
ResetHist ==
    /\ pc = "reset"
    /\ total_host_to_device' = WriteCount(total_host_to_device, GhBytes)
    /\ \E e \in Env :
        LET pre == devOk /\ bufOk
            ok == pre /\ e
        IN
        /\ failed' = (failed \/ ~ok)
        /\ faults' = Spend(pre, e)
        /\ dev_gh' = IF ok THEN HistReset(dev_gh) ELSE dev_gh
        /\ written' = IF ok THEN written \cup {"gh"} ELSE written
        /\ moved_h2d' = IF ok THEN moved_h2d + GhBytes ELSE moved_h2d
        /\ pc' = AfterAssert(ok, "hist_args")
    /\ UNCHANGED <<inputVars, cpu, out, pass, setupVars, handleVars, mem,
                   dev_pg, dev_go, hostVars, argVars, total_device_to_host,
                   moved_d2h, scatterVars, reportVars>>

\* :112-116 the four clSetKernelArg calls of kh; their results are dropped.
\* Argument 2 is the low 32 bits of N, which is N for N < 2^32.
SetHistArgs ==
    /\ pc = "hist_args"
    /\ \E e \in Env :
        LET ok == progOk /\ e IN
        /\ failed' = (failed \/ ~ok)
        /\ faults' = Spend(progOk, e)
        /\ kh_args' = IF ok
                      THEN [set |-> TRUE, src |-> buf_in, dst |-> buf_in,
                            shift |-> Shift(pass)]
                      ELSE kh_args
    /\ pc' = "hist"
    /\ UNCHANGED <<inputVars, cpu, out, pass, setupVars, handleVars,
                   keyBufVars, tableVars, hostVars, ks_args, counterVars,
                   scatterVars, reportVars>>

\* :117-118 dispatch build_group_histogram and clFinish; results dropped.
\* The kernel adds its counts to buf_gh.  A dispatch that reads a buffer
\* whose contents are not defined has no defined outcome.
DispatchHist ==
    /\ pc = "hist"
    /\ \E e \in Env :
        LET pre == devOk /\ progOk /\ kh_args.set /\ GLOBAL_SZ(N) > 0
            ok == pre /\ e
            defd == bufOk /\ kh_args.src \in written /\ "gh" \in written
            cnt == GroupHistogram(mem[kh_args.src], N, kh_args.shift)
        IN
        /\ failed' = (failed \/ ~ok)
        /\ faults' = Spend(pre, e)
        /\ dev_gh' = IF ok /\ defd
                     THEN [idx \in DOMAIN dev_gh |-> dev_gh[idx] + cnt[idx]]
                     ELSE dev_gh
        /\ pc' = IF ok /\ ~defd THEN "undefined" ELSE "read_gh"
    /\ UNCHANGED <<inputVars, cpu, out, pass, setupVars, handleVars,
                   keyBufVars, dev_pg, dev_go, hostVars, argVars, counterVars,
                   scatterVars, reportVars>>

\* :120-122 read back gh
ReadHist ==
    /\ pc = "read_gh"
    /\ total_device_to_host' = ReadCount(total_device_to_host, GhBytes)
    /\ \E e \in Env :
        LET pre == devOk /\ bufOk
            ok == pre /\ e
            defd == "gh" \in written
        IN
        /\ failed' = (failed \/ ~ok)
        /\ faults' = Spend(pre, e)
        /\ gh' = IF ok /\ defd THEN dev_gh ELSE gh
        /\ moved_d2h' = IF ok THEN moved_d2h + GhBytes ELSE moved_d2h
        /\ pc' = IF ok /\ ~defd THEN "undefined" ELSE AfterAssert(ok, "offsets")
    /\ UNCHANGED <<inputVars, cpu, out, pass, setupVars, handleVars,
                   keyBufVars, tableVars, bt, pg, go, argVars,
                   total_host_to_device, moved_h2d, scatterVars, reportVars>>

\* :124-141 bucket totals, prefix sum across digits, group offsets
HostOffsets ==
    /\ pc = "offsets"
    /\ bt' = BucketTotals(gh, NUM_GROUPS(N))
    /\ pg' = GlobalPrefix(bt')
    /\ go' = GroupOffsets(gh, NUM_GROUPS(N))
    /\ pc' = "upload_pg"
    /\ UNCHANGED <<inputVars, faults, cpu, out, pass, setupVars, handleVars,
                   keyBufVars, tableVars, gh, argVars, counterVars, failed,
                   scatterVars, reportVars>>

\* :143-145 upload pg
UploadPg ==
    /\ pc = "upload_pg"
    /\ total_host_to_device' = WriteCount(total_host_to_device, PgBytes)
    /\ \E e \in Env :
        LET pre == devOk /\ bufOk
            ok == pre /\ e
        IN
        /\ failed' = (failed \/ ~ok)
        /\ faults' = Spend(pre, e)
        /\ dev_pg' = IF ok THEN pg ELSE dev_pg
        /\ written' = IF ok THEN written \cup {"pg"} ELSE written
        /\ moved_h2d' = IF ok THEN moved_h2d + PgBytes ELSE moved_h2d
        /\ pc' = AfterAssert(ok, "upload_go")
    /\ UNCHANGED <<inputVars, cpu, out, pass, setupVars, handleVars, mem,
                   dev_gh, dev_go, hostVars, argVars, total_device_to_host,
                   moved_d2h, scatterVars, reportVars>>

\* :146-147 upload go
UploadGo ==
    /\ pc = "upload_go"
    /\ total_host_to_device' = WriteCount(total_host_to_device, GhBytes)
    /\ \E e \in Env :
        LET pre == devOk /\ bufOk
            ok == pre /\ e
        IN
        /\ failed' = (failed \/ ~ok)
        /\ faults' = Spend(pre, e)
        /\ dev_go' = IF ok THEN go ELSE dev_go
        /\ written' = IF ok THEN written \cup {"go"} ELSE written
        /\ moved_h2d' = IF ok THEN moved_h2d + GhBytes ELSE moved_h2d
        /\ pc' = AfterAssert(ok, "scatter_args")
    /\ UNCHANGED <<inputVars, cpu, out, pass, setupVars, handleVars, mem,
                   dev_gh, dev_pg, hostVars, argVars, total_device_to_host,
                   moved_d2h, scatterVars, reportVars>>

\* :149-155 the six clSetKernelArg calls of ks; their results are dropped
SetScatterArgs ==
    /\ pc = "scatter_args"
    /\ \E e \in Env :
        LET ok == progOk /\ e IN
        /\ failed' = (failed \/ ~ok)
        /\ faults' = Spend(progOk, e)
        /\ ks_args' = IF ok
                      THEN [set |-> TRUE, src |-> buf_in, dst |-> buf_out,
                            shift |-> Shift(pass)]
                      ELSE ks_args
    /\ pc' = "scatter"
    /\ UNCHANGED <<inputVars, cpu, out, pass, setupVars, handleVars,
                   keyBufVars, tableVars, hostVars, kh_args, counterVars,
                   scatterVars, reportVars>>

\* :156-157 dispatch scatter_stable and clFinish; results dropped.
\* A kernel that writes a buffer created CL_MEM_READ_ONLY is undefined in
\* OpenCL: the writes land or they do not.
DispatchScatter ==
    /\ pc = "scatter"
    /\ \E e \in Env, landed \in BOOLEAN :
        LET pre == devOk /\ progOk /\ ks_args.set /\ GLOBAL_SZ(N) > 0
            ok == pre /\ e
            defd == /\ bufOk
                    /\ {ks_args.src, "pg", "go"} \subseteq written
                    /\ ScatterDefined(mem[ks_args.src], dev_pg, dev_go, N,
                                      ks_args.shift)
            new == ScatterResult(mem[ks_args.src], mem[ks_args.dst], dev_pg,
                                 dev_go, N, ks_args.shift)
        IN
        /\ (~landed) => (ok /\ defd /\ ReadOnly(ks_args.dst))
        /\ failed' = (failed \/ ~ok)
        /\ faults' = Spend(pre, e)
        /\ mem' = IF ok /\ defd /\ landed
                  THEN [mem EXCEPT ![ks_args.dst] = new]
                  ELSE mem
        /\ written' = IF ok /\ defd /\ landed
                      THEN written \cup {ks_args.dst}
                      ELSE written
        /\ scattered' = IF ~ok THEN "failed"
                        ELSE IF ~defd THEN "undefined"
                        ELSE IF landed THEN "landed" ELSE "dropped"
        /\ dropped' = (dropped \/ ~landed)
        /\ pc' = IF ok /\ ~defd THEN "undefined" ELSE "swap"
    /\ UNCHANGED <<inputVars, cpu, out, pass, setupVars, handleVars,
                   tableVars, hostVars, argVars, counterVars, reportVars>>

\* :159-160 swap buffers, then ++pass and the loop test of :105
Swap ==
    /\ pc = "swap"
    /\ buf_in' = SwapBuffers(buf_in, buf_out)[1]
    /\ buf_out' = SwapBuffers(buf_in, buf_out)[2]
    /\ pass' = pass + 1
    /\ pc' = LoopHead(pass + 1)
    /\ UNCHANGED <<inputVars, faults, cpu, out, setupVars, keyBufVars,
                   tableVars, hostVars, argVars, counterVars, failed,
                   scatterVars, reportVars>>

(***************************************************************************)
(* :163-165 read back final sorted data                                    *)
(***************************************************************************)
\* variant: the result is read through the other handle
ResultBufferOut == buf_out

\* the buffer the final ENQUEUE_READ reads
ResultBuffer == buf_in

ReadResult ==
    /\ pc = "read_result"
    /\ total_device_to_host' = ReadCount(total_device_to_host, KeyBytes)
    /\ \E e \in Env :
        LET pre == devOk /\ bufOk
            ok == pre /\ e
            defd == ResultBuffer \in written
        IN
        /\ failed' = (failed \/ ~ok)
        /\ faults' = Spend(pre, e)
        /\ out' = IF ok /\ defd THEN mem[ResultBuffer] ELSE out
        /\ moved_d2h' = IF ok THEN moved_d2h + KeyBytes ELSE moved_d2h
        /\ pc' = IF ok /\ ~defd THEN "undefined" ELSE AfterAssert(ok, "verify")
    /\ UNCHANGED <<inputVars, cpu, pass, setupVars, handleVars, keyBufVars,
                   tableVars, hostVars, argVars, total_host_to_device,
                   moved_h2d, scatterVars, reportVars>>

(***************************************************************************)
(* :167-175 verify & report                                                *)
(***************************************************************************)
\* variant: only the lengths are compared
MismatchLengthOnly(o, c) == Len(o) # Len(c)

\* out != cpu
Mismatch(o, c) == KeysOf(o) # c

Verify ==
    /\ pc = "verify"
    /\ pc' = IF Mismatch(out, cpu) THEN "mismatch" ELSE "done"
    /\ exitCode' = IF Mismatch(out, cpu) THEN EXIT_MISMATCH ELSE exitCode
    /\ passReported' = ~Mismatch(out, cpu)
    /\ totalsReported' = ~Mismatch(out, cpu)
    /\ UNCHANGED <<inputVars, faults, cpu, out, pass, setupVars, handleVars,
                   keyBufVars, tableVars, hostVars, argVars, counterVars,
                   failed, scatterVars>>

Next ==
    \/ Entry \/ Discover \/ CreateContext \/ BuildProgram \/ AllocBuffers
    \/ ResetHist \/ SetHistArgs \/ DispatchHist \/ ReadHist \/ HostOffsets
    \/ UploadPg \/ UploadGo \/ SetScatterArgs \/ DispatchScatter \/ Swap
    \/ ReadResult \/ Verify

\* runs in which every OpenCL call that can succeed does
Spec == Init /\ [][Next]_vars

\* runs in which the environment makes up to MaxFaults calls fail
SpecFault == InitFault /\ [][Next]_vars

(***************************************************************************)
(* Vocabulary of the properties.                                           *)
(***************************************************************************)
\* the run has read the result back (or is past that point)
AfterReadBack == pc \in {"verify", "done", "mismatch"}

\* the run has ended, one way or another
Ended == pc \in {"done", "mismatch", "aborted", "undefined"}

NonDecreasing(s) == \A i, j \in 1 .. Len(s) : i < j => s[i] <= s[j]

Occurrences(s, k) == Cardinality({i \in 1 .. Len(s) : s[i] = k})

Permutation(s, t) ==
    /\ Len(s) = Len(t)
    /\ \A i \in 1 .. Len(s) : Occurrences(s, s[i]) = Occurrences(t, s[i])

\* the source and destination contents of the last scatter dispatch
ScatterSrc == mem[ks_args.src]
ScatterDst == mem[ks_args.dst]
\* the slot the last scatter dispatch assigned to lane gid
Slot(gid) == DestIndex(ScatterSrc, dev_pg, dev_go, ks_args.shift, gid)

(***************************************************************************)
(* Sanity of the model: when every call succeeds and every scatter write   *)
(* lands, the buffer read back is the sorted reference.                    *)
(***************************************************************************)
SortsWhenWritesLand ==
    (AfterReadBack /\ ~failed /\ ~dropped) =>
        /\ NonDecreasing(KeysOf(out))
        /\ Permutation(KeysOf(out), in)
        /\ KeysOf(out) = cpu

(***************************************************************************)
(* C1.  When run_opencl_radix has completed all PASSES passes, the buffer  *)
(* read back as the result is in non-decreasing order and is a permutation *)
(* of the input.                                                           *)
(* Stated as claimed.  It fails: the odd passes scatter into the buffer    *)
(* created CL_MEM_READ_ONLY, and the result is read from that buffer.      *)
(***************************************************************************)
C1_SortedPermutation ==
    (AfterReadBack /\ ~failed) =>
        /\ NonDecreasing(KeysOf(out))
        /\ Permutation(KeysOf(out), in)

(***************************************************************************)
(* C2.  Stability.  In every pass, two keys with the same current digit    *)
(* are assigned destination slots in the order they have in the source     *)
(* buffer, and a scatter that lands puts each key into its slot; after the *)
(* last pass, keys of equal value are read back in their input order.      *)
(***************************************************************************)
C2_Stable ==
    /\ (pc = "swap" /\ scattered \in {"landed", "dropped"}) =>
          /\ \A i, j \in 0 .. N - 1 :
                (i < j /\ Digit(ScatterSrc[i + 1].key, ks_args.shift)
                          = Digit(ScatterSrc[j + 1].key, ks_args.shift))
                    => Slot(i) < Slot(j)
          /\ scattered = "landed" =>
                \A i \in 0 .. N - 1 : ScatterDst[Slot(i) + 1] = ScatterSrc[i + 1]
    /\ (AfterReadBack /\ ~failed) =>
          \A i, j \in 1 .. Len(out) :
              (i < j /\ out[i].key = out[j].key) => out[i].id < out[j].id

\* a pass has moved two keys with equal digits that sit in different groups,
\* and the run has read back two equal keys
C2_Witness ==
    /\ AfterReadBack /\ ~failed /\ ~dropped
    /\ N = MaxN
    /\ \E i, j \in 1 .. N : i < j /\ in[i] = in[j] /\ (i - 1) \div LOCAL_SZ # (j - 1) \div LOCAL_SZ
    /\ \E i \in 1 .. N : out[i].id # i

(***************************************************************************)
(* C3.  Any failure at any step aborts the run: after the failing step no  *)
(* later step of the pass loop executes and the run never reports PASS.    *)
(* Stated as claimed, for the build that keeps assert() (with NDEBUG no    *)
(* call is checked at all).  It fails: the results of clSetKernelArg,      *)
(* clEnqueueNDRangeKernel and clFinish are dropped.                        *)
(***************************************************************************)
LoopSteps == {"reset", "hist_args", "hist", "read_gh", "offsets", "upload_pg",
              "upload_go", "scatter_args", "scatter", "swap"}

C3_FailureAborts ==
    /\ [][ ~(failed /\ ~ndebug /\ pc \in LoopSteps) ]_vars
    /\ [] ((failed /\ ~ndebug) => ~passReported)

(***************************************************************************)
(* C4.  The run reports PASS exactly when the buffer read back equals the  *)
(* sorted reference element by element; on any difference it ends with a   *)
(* correctness failure and a non-zero exit status, and neither PASS nor    *)
(* the transfer totals are reported.                                       *)
(***************************************************************************)
SameKeys(o, c) ==
    /\ Len(o) = Len(c)
    /\ \A i \in 1 .. Len(o) : o[i].key = c[i]

C4_Verdict ==
    /\ pc # "entry" => (NonDecreasing(cpu) /\ Permutation(cpu, in))
    /\ pc = "done" =>
          (SameKeys(out, cpu) /\ passReported /\ totalsReported /\ exitCode = 0)
    /\ pc = "mismatch" =>
          (~SameKeys(out, cpu) /\ exitCode # 0 /\ ~passReported /\ ~totalsReported)
    /\ pc # "done" => (~passReported /\ ~totalsReported)

\* a run without any failed call ends in a correctness failure
C4_Witness == pc = "mismatch" /\ ~failed /\ N > 1

(***************************************************************************)
(* C5.  At every point both counters equal the bytes of all uploads and    *)
(* of all downloads performed so far, the initial upload of the input keys *)
(* included.                                                               *)
(* Stated as claimed.  It fails: the keys are uploaded by clCreateBuffer   *)
(* with CL_MEM_COPY_HOST_PTR, which no counter sees.                       *)
(***************************************************************************)
C5_CountersExact ==
    /\ total_host_to_device = moved_h2d
    /\ total_device_to_host = moved_d2h

(***************************************************************************)
(* C6.  For N = 0 the run completes with an empty output, PASS is          *)
(* reported and both counters are 0 at the end of the run.                 *)
(* Stated as claimed.  It fails: a buffer of size 0 cannot be created, and *)
(* every pass counts the RADIX * 4 bytes of pg.                            *)
(***************************************************************************)
C6_EmptyInput ==
    (N = 0 /\ Ended) =>
        /\ pc = "done" /\ passReported
        /\ out = <<>>
        /\ total_host_to_device = 0
        /\ total_device_to_host = 0

(***************************************************************************)
(* C7.  Counter direction: a download leaves the host-to-device counter    *)
(* unchanged, an upload leaves the device-to-host counter unchanged, and   *)
(* no step makes either counter smaller.                                   *)
(***************************************************************************)
UploadSteps == {"reset", "upload_pg", "upload_go"}
DownloadSteps == {"read_gh", "read_result"}

C7_Direction ==
    [][ /\ pc \in DownloadSteps => total_host_to_device' = total_host_to_device
        /\ pc \in UploadSteps => total_device_to_host' = total_device_to_host
        /\ total_host_to_device' >= total_host_to_device
        /\ total_device_to_host' >= total_device_to_host ]_vars

\* both kinds of transfer have been counted
C7_Witness ==
    pc = "done" /\ total_host_to_device > 0 /\ total_device_to_host > 0

(***************************************************************************)
(* C8.  For N = 1 the launched grid has LOCAL_SZ lanes with only lane 0 in *)
(* range, every pass leaves in the destination the one key of the source,  *)
(* and the output equals the input.                                        *)
(***************************************************************************)
C8_SingleKey ==
    N = 1 =>
        /\ GLOBAL_SZ(N) = LOCAL_SZ
        /\ {gid \in 0 .. GLOBAL_SZ(N) - 1 : gid < N} = {0}
        /\ pc # "undefined"
        /\ pc = "swap" =>
              /\ Len(ScatterDst) = 1
              /\ ScatterDst[1].key = ScatterSrc[1].key
              /\ ScatterDst[1].key = in[1]
        /\ AfterReadBack => KeysOf(out) = in

\* the last pass of a one-key run has scattered a key that is not 0
C8_Witness ==
    N = 1 /\ pc = "swap" /\ pass = PASSES - 1 /\ in[1] # 0 /\ scattered = "landed"

(***************************************************************************)
(* C9.  Double buffering: in every pass the scatter source and the scatter *)
(* destination are the two different key buffers, and each pass binds them *)
(* the other way round than the pass before.                               *)
(***************************************************************************)
C9_DoubleBuffer ==
    /\ [] ((pc \in {"scatter", "swap"} /\ ~failed) =>
              /\ ks_args.src # ks_args.dst
              /\ {ks_args.src, ks_args.dst} = Buffers
              /\ kh_args.src = ks_args.src)
    /\ [][ (pc = "scatter_args" /\ ks_args.set /\ ~failed') =>
              /\ ks_args'.src = ks_args.dst
              /\ ks_args'.dst = ks_args.src ]_vars

\* a second pass has bound the buffers
C9_Witness == pc = "scatter" /\ pass = 1 /\ ~failed /\ ks_args.src = "B"

(***************************************************************************)
(* C10.  The buffer read back after the loop is the destination of the     *)
(* last scatter and not its source, whatever the parity of PASSES.         *)
(***************************************************************************)
C10_ResultFromLastDestination ==
    (pc \in {"read_result", "verify", "done", "mismatch"} /\ ~failed) =>
        /\ pass = PASSES
        /\ ResultBuffer = ks_args.dst
        /\ ResultBuffer # ks_args.src
        /\ AfterReadBack => out = ScatterDst

\* a result of several keys has been read back
C10_Witness == pc = "verify" /\ ~failed /\ N > 1 /\ ks_args.shift = Shift(PASSES - 1)

(***************************************************************************)
(* Vocabulary of the per-pass properties.                                  *)
(***************************************************************************)
RECURSIVE SumFn(_, _)
\* the sum of f over the finite set S
SumFn(f, S) ==
    IF S = {} THEN 0
    ELSE LET x == CHOOSE y \in S : TRUE IN f[x] + SumFn(f, S \ {x})

\* the host arrays hold the offsets of the current pass
OffsetsKnown ==
    pc \in {"upload_pg", "upload_go", "scatter_args", "scatter", "swap"} /\ ~failed

\* the source buffer and the shift of the current pass
PassSrc == mem[kh_args.src]
PassShift == kh_args.shift

\* per-group counts of digit d, as a function of the group
Column(h, d) == [g \in 0 .. NUM_GROUPS(N) - 1 |-> h[g * RADIX + d]]

\* in-range keys of group g whose current digit is d
GroupDigitKeys(g, d) ==
    {i \in 0 .. N - 1 : i \div LOCAL_SZ = g /\ Digit(PassSrc[i + 1].key, PassShift) = d}

(***************************************************************************)
(* C12.  In every pass bt[d] is the sum over all groups of the per-group   *)
(* count of d, and the bucket totals add up to N, also when the last group *)
(* is partial.                                                             *)
(***************************************************************************)
C12_BucketTotals ==
    OffsetsKnown =>
        /\ \A d \in 0 .. RADIX - 1 :
              bt[d] = SumFn(Column(gh, d), 0 .. NUM_GROUPS(N) - 1)
        /\ SumFn(bt, 0 .. RADIX - 1) = N

\* a later pass over an input whose last group is partial
C12_Witness ==
    /\ pc = "upload_pg" /\ ~failed /\ pass > 0
    /\ N % LOCAL_SZ # 0 /\ N > LOCAL_SZ
    /\ \E d \in 0 .. RADIX - 1 : bt[d] > 1

(***************************************************************************)
(* C13.  In every pass pg is the exclusive prefix sum of bt in ascending   *)
(* digit order: pg[0] = 0, pg[d] = pg[d-1] + bt[d-1], so pg[d] is the      *)
(* number of keys whose current digit is smaller than d.                   *)
(***************************************************************************)
C13_ExclusivePrefix ==
    /\ pc # "entry" =>
          /\ pg[0] = 0
          /\ \A d \in 1 .. RADIX - 1 : pg[d] = pg[d - 1] + bt[d - 1]
    /\ OffsetsKnown =>
          \A d \in 0 .. RADIX - 1 :
              pg[d] = Cardinality({i \in 1 .. N :
                                      Digit(PassSrc[i].key, PassShift) < d})

\* a pass whose keys fall into several buckets
C13_Witness ==
    /\ pc = "upload_pg" /\ ~failed
    /\ pg[RADIX - 1] = N - 1 /\ pg[1] = 1 /\ N = MaxN

(***************************************************************************)
(* C14.  In every pass go[g, d] is the sum of the counts of d over the     *)
(* groups before g; so go[0, d] = 0 and go[g, d] + count(g, d) <= bt[d].   *)
(***************************************************************************)
C14_GroupOffsets ==
    OffsetsKnown =>
        \A d \in 0 .. RADIX - 1 :
            /\ NUM_GROUPS(N) > 0 => go[d] = 0
            /\ \A g \in 0 .. NUM_GROUPS(N) - 1 :
                  /\ go[g * RADIX + d] = SumFn(Column(gh, d), 0 .. g - 1)
                  /\ go[g * RADIX + d] + gh[g * RADIX + d] <= bt[d]

\* a second group starts behind the keys of the first
C14_Witness ==
    /\ OffsetsKnown /\ N > LOCAL_SZ
    /\ \E d \in 0 .. RADIX - 1 : go[RADIX + d] > 0 /\ gh[RADIX + d] > 0

(***************************************************************************)
(* C15.  In every pass the destination indices of the N keys are pairwise  *)
(* distinct and are exactly 0 .. N-1: every slot is written once, none at  *)
(* or beyond N, and no two lanes write the same slot.                      *)
(***************************************************************************)
C15_ScatterBijection ==
    /\ (pc = "scatter" /\ ~failed) =>
          /\ {Slot(gid) : gid \in 0 .. N - 1} = 0 .. N - 1
          /\ \A a, b \in 0 .. N - 1 : a # b => Slot(a) # Slot(b)
    /\ ~failed => (pc # "undefined" /\ scattered # "undefined")

\* a scatter that is about to move keys of two groups
C15_Witness ==
    /\ pc = "scatter" /\ ~failed /\ N = MaxN
    /\ \E gid \in 0 .. N - 1 : Slot(gid) # gid
    /\ \E a, b \in 0 .. N - 1 :
          /\ a \div LOCAL_SZ # b \div LOCAL_SZ
          /\ Digit(ScatterSrc[a + 1].key, ks_args.shift)
               = Digit(ScatterSrc[b + 1].key, ks_args.shift)

(***************************************************************************)
(* C16.  In every pass the per-group histogram storage is all zero when    *)
(* the histogram stage starts, so the counts read back depend only on the  *)
(* source buffer and the shift of that pass.                               *)
(***************************************************************************)
C16_FreshHistogram ==
    /\ (pc \in {"hist_args", "hist"} /\ ~failed) =>
          \A idx \in DOMAIN dev_gh : dev_gh[idx] = 0
    /\ (pc = "offsets" \/ OffsetsKnown) /\ ~failed =>
          \A g \in 0 .. NUM_GROUPS(N) - 1, d \in 0 .. RADIX - 1 :
              gh[g * RADIX + d] = Cardinality(GroupDigitKeys(g, d))

\* a later pass starts its histogram while the host still holds the counts
\* of the pass before
C16_Witness ==
    /\ pc = "hist" /\ ~failed /\ pass > 0
    /\ \E idx \in DOMAIN gh : gh[idx] > 0

(***************************************************************************)
(* Repeated calls.  total_host_to_device and total_device_to_host are      *)
(* file-scope statics (opencl_sort.cpp:11-12): they are initialised when   *)
(* the process starts and nothing in run_opencl_radix assigns them, so a   *)
(* second call in the same process starts with the totals of the first.    *)
(* Every other variable of the function is a local and starts afresh.      *)
(***************************************************************************)
CallAgain ==
    /\ pc = "done" /\ calls < MaxCalls
    /\ calls' = calls + 1
    /\ \E n \in 0 .. MaxN : \E i \in [1 .. n -> Keys] : N' = n /\ in' = i
    /\ cpu' = <<>> /\ out' = <<>>
    /\ pc' = "entry" /\ pass' = 0
    /\ devOk' = FALSE /\ progOk' = FALSE /\ bufOk' = FALSE
    /\ buf_in' = "A" /\ buf_out' = "B"
    /\ mem' = [b \in Buffers |-> <<>>]
    /\ written' = {}
    /\ dev_gh' = <<>> /\ dev_pg' = <<>> /\ dev_go' = <<>>
    /\ gh' = <<>> /\ bt' = <<>> /\ pg' = <<>> /\ go' = <<>>
    /\ kh_args' = NoArgs /\ ks_args' = NoArgs
    /\ moved_h2d' = 0 /\ moved_d2h' = 0
    /\ failed' = FALSE
    /\ scattered' = "none" /\ dropped' = FALSE
    /\ passReported' = FALSE /\ totalsReported' = FALSE
    /\ UNCHANGED <<ndebug, faults, exitCode, lsbVars, lanes, queueVars,
                   total_host_to_device, total_device_to_host>>

NextCalls == Next \/ CallAgain

\* a process that calls run_opencl_radix up to MaxCalls times
SpecCalls == Init /\ [][NextCalls]_vars

(***************************************************************************)
(* C18.  Both transfer counters are 0 when a run starts, also when         *)
(* run_opencl_radix is called more than once in the same process, so that  *)
(* the totals reported at the end are those of that run only.              *)
(***************************************************************************)
C18_CountersStartAtZero ==
    pc = "entry" => total_host_to_device = 0 /\ total_device_to_host = 0

(***************************************************************************)
(* radix_sort_single_lsb (radix_sort.cpp:9-40): the single-threaded LSD    *)
(* radix sort.  in and out are distinct, non-overlapping arrays of N keys  *)
(* of type T; arr holds the contents of both, `in` keeps the keys the      *)
(* caller passed.  Array elements carry the position they had in the       *)
(* input (id), which the code never looks at.  The template parameter T    *)
(* is drawn from key types of two widths, so that PASSES takes both        *)
(* parities.                                                               *)
(***************************************************************************)
BUCKETS == Pow2(LSB_BITS)

\* constexpr unsigned PASSES = (sizeof(T) * 8 + BITS - 1) / BITS
LSB_PASSES(w) == (w + LSB_BITS - 1) \div LSB_BITS

\* the widths of the key types T
Widths == {KEY_BITS, KEY_BITS - LSB_BITS}

\* the values of a key type of w bits
KeysOfWidth(w) == {k % Pow2(w) : k \in Keys}

\* (src[i] >> shift) & (BUCKETS - 1)
Bucket(k, shift) == (k \div Pow2(shift)) % BUCKETS

\* for (...; pass < PASSES; ++pass)
LsbLoopHead(p, w) == IF p < LSB_PASSES(w) THEN "lsb_hist" ELSE "lsb_copy"

\* variant: the result is never copied
CopyNeededNever(s) == FALSE

\* if (src != out)
CopyNeeded(s) == s # "out"

InitLsb ==
    /\ ndebug = FALSE /\ faults = 0
    /\ OpenclIdle
    /\ width \in Widths
    /\ N \in 0 .. MaxN
    /\ in \in [1 .. N -> KeysOfWidth(width)]
    /\ arr = [p \in {"in", "out"} |-> IF p = "in" THEN Tagged(in) ELSE Zeros(N)]
    /\ src = "in" /\ dst = "out"
    /\ hist = <<>> /\ offsets = <<>> /\ lsb_i = 0
    /\ lanes = {}
    /\ QueueIdle
    /\ pc = "lsb_entry"

lsbFrame == <<ndebug, faults, N, in, width, cpu, out, devOk, progOk, bufOk,
              buf_in, buf_out, mem, written, dev_gh, dev_pg, dev_go, gh, bt,
              pg, go, kh_args, ks_args, total_host_to_device,
              total_device_to_host, moved_h2d, moved_d2h, failed, scattered,
              dropped, passReported, totalsReported, exitCode, calls, lanes,
              queueVars>>

\* :14-19 the vectors and the two pointers
LsbEntry ==
    /\ pc = "lsb_entry"
    /\ hist' = ZeroArray(BUCKETS)
    /\ offsets' = ZeroArray(BUCKETS + 1)
    /\ src' = "in" /\ dst' = "out"
    /\ pass' = 0
    /\ pc' = LsbLoopHead(0, width)
    /\ UNCHANGED <<lsbFrame, lsb_i, arr>>

\* :21-26 clear the histogram and count the digit of every key of src
LsbHistogram ==
    /\ pc = "lsb_hist"
    /\ hist' = [b \in 0 .. BUCKETS - 1 |->
                  Cardinality({j \in 1 .. N :
                                  Bucket(arr[src][j].key, pass * LSB_BITS) = b})]
    /\ pc' = "lsb_prefix"
    /\ UNCHANGED <<lsbFrame, pass, src, dst, offsets, lsb_i, arr>>

\* :27-30 offsets[0] = 0; offsets[b + 1] = offsets[b] + hist[b]
LsbPrefix ==
    /\ pc = "lsb_prefix"
    /\ offsets' = [b \in 0 .. BUCKETS |-> SumFn(hist, 0 .. b - 1)]
    /\ lsb_i' = 0
    /\ pc' = "lsb_scatter"
    /\ UNCHANGED <<lsbFrame, pass, src, dst, hist, arr>>

\* :31-34 one iteration: dst[offsets[bucket]++] = src[i]
LsbScatter ==
    /\ pc = "lsb_scatter" /\ lsb_i < N
    /\ LET e == arr[src][lsb_i + 1]
           b == Bucket(e.key, pass * LSB_BITS)
       IN  /\ arr' = IF offsets[b] < N
                     THEN [arr EXCEPT ![dst][offsets[b] + 1] = e]
                     ELSE arr
           /\ pc' = IF offsets[b] < N THEN "lsb_scatter" ELSE "undefined"
           /\ offsets' = [offsets EXCEPT ![b] = @ + 1]
    /\ lsb_i' = lsb_i + 1
    /\ UNCHANGED <<lsbFrame, pass, src, dst, hist>>

\* :35 std::swap(src, dst), and ++pass
LsbSwap ==
    /\ pc = "lsb_scatter" /\ lsb_i = N
    /\ src' = dst /\ dst' = src
    /\ pass' = pass + 1
    /\ pc' = LsbLoopHead(pass + 1, width)
    /\ UNCHANGED <<lsbFrame, hist, offsets, lsb_i, arr>>

\* :37-39 copy the result to out unless it is there already
LsbCopy ==
    /\ pc = "lsb_copy"
    /\ arr' = IF CopyNeeded(src) THEN [arr EXCEPT !["out"] = arr[src]] ELSE arr
    /\ pc' = "lsb_returned"
    /\ UNCHANGED <<lsbFrame, pass, src, dst, hist, offsets, lsb_i>>

NextLsb ==
    \/ LsbEntry
    \/ LsbHistogram
    \/ LsbPrefix
    \/ LsbScatter
    \/ LsbSwap
    \/ LsbCopy

\* the function has no blocking call: once entered it runs until it returns
SpecLsb == InitLsb /\ [][NextLsb]_vars /\ WF_vars(NextLsb)

\* what radix_sort_single_lsb promises about out when it returns
LsbResultRight ==
    /\ pass = LSB_PASSES(width)
    /\ Len(arr["out"]) = N
    /\ {arr["out"][j].id : j \in 1 .. N} = 1 .. N
    /\ \A j \in 1 .. N : arr["out"][j].key = in[arr["out"][j].id]
    /\ \A j, k \in 1 .. N :
          j < k => \/ arr["out"][j].key < arr["out"][k].key
                   \/ /\ arr["out"][j].key = arr["out"][k].key
                      /\ arr["out"][j].id < arr["out"][k].id

(***************************************************************************)
(* C19.  radix_sort_single_lsb(in, out, N) returns after exactly PASSES    *)
(* passes and leaves in out[0..N) the keys of the original in[0..N) in     *)
(* non-decreasing order, equal keys in their input order, whatever the     *)
(* parity of PASSES.                                                       *)
(***************************************************************************)
C19_SingleLsb ==
    /\ [] (pc = "lsb_returned" => LsbResultRight)
    /\ [] (pc # "undefined")
    /\ <> (pc = "lsb_returned")

\* an unsorted input with equal keys whose last pass wrote into in
C19_Witness ==
    /\ pc = "lsb_returned" /\ src = "in" /\ N = MaxN
    /\ \E j, k \in 1 .. N : j < k /\ in[j] > in[k]
    /\ \E j, k \in 1 .. N : j < k /\ in[j] = in[k]

\* the other parity: the last pass wrote into out
C19_WitnessNoCopy ==
    /\ pc = "lsb_returned" /\ src = "out" /\ N = MaxN
    /\ \E j, k \in 1 .. N : j < k /\ in[j] > in[k]

(***************************************************************************)
(* The histogram stage lane by lane (spec.md 4.2, 5(b)).  The state is the *)
(* one run_opencl_radix is in between the dispatch of kh at :117 and the   *)
(* return of clFinish at :118 in some pass: buf_gh was zeroed (:109), the  *)
(* arguments are bound (:113-116) and GLOBAL_SZ lanes in groups of         *)
(* LOCAL_SZ have been launched.  The lanes run in any order; each adds one *)
(* to the count of its group and its key's digit in one indivisible step,  *)
(* a lane at or beyond N counts nothing.  clFinish returns when all lanes  *)
(* have run.                                                               *)
(***************************************************************************)
\* the buffers, tables and counters of a run whose set-up (:52-103) succeeded
LoopEntered ==
    /\ ndebug = FALSE /\ faults = 0
    /\ N \in 1 .. MaxN
    /\ in \in [1 .. N -> Keys]
    /\ cpu = SortKeys(in)
    /\ out = Zeros(N)
    /\ devOk = TRUE /\ progOk = TRUE /\ bufOk = TRUE
    /\ buf_in = "A" /\ buf_out = "B"
    /\ mem = [b \in Buffers |-> IF b = "A" THEN Tagged(in) ELSE Zeros(N)]
    /\ dev_pg = ZeroArray(RADIX)
    /\ dev_go = ZeroArray(NUM_GROUPS(N) * RADIX)
    /\ gh = ZeroArray(NUM_GROUPS(N) * RADIX)
    /\ bt = ZeroArray(RADIX) /\ pg = ZeroArray(RADIX)
    /\ go = ZeroArray(NUM_GROUPS(N) * RADIX)
    /\ ks_args = NoArgs
    /\ total_host_to_device = 0 /\ total_device_to_host = 0
    /\ moved_h2d = 0 /\ moved_d2h = 0
    /\ failed = FALSE
    /\ scattered = "none" /\ dropped = FALSE
    /\ passReported = FALSE /\ totalsReported = FALSE /\ exitCode = 0
    /\ calls = 1
    /\ LsbIdle

InitLanes ==
    /\ LoopEntered
    /\ pass \in 0 .. PASSES - 1
    /\ written = {"A", "gh"}
    /\ dev_gh = HistReset(ZeroArray(NUM_GROUPS(N) * RADIX))
    /\ kh_args = [set |-> TRUE, src |-> buf_in, dst |-> buf_in,
                  shift |-> Shift(pass)]
    /\ lanes = {}
    /\ QueueIdle
    /\ pc = "kh_running"

\* the lanes launched by the dispatch at :117
Launched == 0 .. GLOBAL_SZ(N) - 1

\* the counter lane gid adds to
LaneCounter(gid) ==
    (gid \div LOCAL_SZ) * RADIX + Digit(mem[kh_args.src][gid + 1].key, kh_args.shift)

\* one lane of build_group_histogram
LaneCount ==
    /\ pc = "kh_running"
    /\ \E gid \in Launched \ lanes :
        /\ lanes' = lanes \cup {gid}
        /\ dev_gh' = IF gid < N
                     THEN [dev_gh EXCEPT ![LaneCounter(gid)] = @ + 1]
                     ELSE dev_gh
    /\ pc' = "kh_running"
    /\ UNCHANGED <<ndebug, N, in, calls, lsbVars, queueVars, cpu, out, pass,
                   setupVars, handleVars, keyBufVars, dev_pg, dev_go, hostVars,
                   argVars, counterVars, scatterVars, reportVars, faults,
                   failed>>

\* :118 clFinish(q) returns once every lane has run
KernelFinish ==
    /\ pc = "kh_running"
    /\ lanes = Launched
    /\ pc' = "kh_finished"
    /\ UNCHANGED <<ndebug, N, in, calls, lsbVars, lanes, queueVars, cpu, out,
                   pass,
                   setupVars, handleVars, keyBufVars, tableVars, hostVars,
                   argVars, counterVars, scatterVars, reportVars, faults,
                   failed>>

NextLanes == LaneCount \/ KernelFinish

SpecLanes == InitLanes /\ [][NextLanes]_vars

(***************************************************************************)
(* C17.  For a fixed source buffer and shift every interleaving of the     *)
(* groups and of the lanes within a group ends with the same (group,       *)
(* digit) counts: each count is the number of in-range keys of that group  *)
(* whose digit has that value.                                             *)
(***************************************************************************)
C17_HistogramDeterministic ==
    /\ pc = "kh_running" =>
          \A idx \in DOMAIN dev_gh :
              dev_gh[idx] = Cardinality(GroupDigitKeys(idx \div RADIX, idx % RADIX)
                                           \cap lanes)
    /\ pc = "kh_finished" =>
          /\ \A gid \in 0 .. N - 1, d \in 0 .. RADIX - 1 :
                /\ (gid \div LOCAL_SZ) * RADIX + d \in DOMAIN dev_gh
                /\ dev_gh[(gid \div LOCAL_SZ) * RADIX + d]
                     = Cardinality(GroupDigitKeys(gid \div LOCAL_SZ, d))
          /\ dev_gh = GroupHistogram(PassSrc, N, PassShift)

\* a finished histogram with a partial last group and a counter that two
\* lanes have added to
C17_Witness ==
    /\ pc = "kh_finished" /\ N = MaxN /\ N % LOCAL_SZ # 0
    /\ \E idx \in DOMAIN dev_gh : dev_gh[idx] >= 2
    /\ PassShift > 0

(***************************************************************************)
(* Host and device as two execution domains joined by the command queue q  *)
(* (opencl_sort.cpp:65-66, created without the out-of-order property: the  *)
(* device takes the commands in the order they were enqueued).  The host   *)
(* walks through the pass loop (:105-161); a transfer or a dispatch is     *)
(* enqueued, the device starts it and ends it on its own, and the host     *)
(* goes on when the call it is in returns.  What the commands compute is   *)
(* left out here; log records when each step starts and ends.  Every call  *)
(* succeeds.                                                               *)
(***************************************************************************)
Steps == <<"reset", "hist", "read_gh", "offsets", "upload_pg", "upload_go",
           "scatter", "swap">>

\* steps the device carries out; the others run on the host
DeviceSteps == {"reset", "hist", "read_gh", "upload_pg", "upload_go", "scatter"}

\* the step after s inside a pass
StepAfter(s) == Steps[(CHOOSE k \in 1 .. Len(Steps) - 1 : Steps[k] = s) + 1]

\* transfers enqueued with blocking = CL_TRUE (:109, :121, :144, :146)
Blocking(s) == s \in {"reset", "read_gh", "upload_pg", "upload_go"}

\* variant: the dispatches are not followed by clFinish
FinishFollowsNever(s) == FALSE

\* dispatches followed by clFinish(q) (:117-118, :156-157)
FinishFollows(s) == s \in {"hist", "scatter"}

InitQueue ==
    /\ LoopEntered
    /\ pass = 0
    /\ written = {"A"}
    /\ dev_gh = ZeroArray(NUM_GROUPS(N) * RADIX)
    /\ kh_args = NoArgs
    /\ lanes = {}
    /\ QueueIdle
    /\ pc = LoopHead(0)

queueFrame == <<ndebug, N, in, calls, lsbVars, lanes, cpu, out, setupVars,
                handleVars, keyBufVars, tableVars, hostVars, argVars,
                counterVars, scatterVars, reportVars, faults, failed>>

\* the host enqueues the command of a device step; a call that does not
\* wait returns at once
Enqueue ==
    /\ host = "ready" /\ pc \in DeviceSteps
    /\ cq' = Append(cq, <<pc, pass>>)
    /\ host' = IF Blocking(pc) \/ FinishFollows(pc) THEN "blocked" ELSE "ready"
    /\ pc' = IF Blocking(pc) \/ FinishFollows(pc) THEN pc ELSE StepAfter(pc)
    /\ UNCHANGED <<queueFrame, pass, running, log>>

\* the device takes the oldest command
DeviceStart ==
    /\ running = <<>> /\ cq # <<>>
    /\ running' = Head(cq)
    /\ cq' = Tail(cq)
    /\ log' = Append(log, <<"start", Head(cq)[1], Head(cq)[2]>>)
    /\ UNCHANGED <<queueFrame, pc, pass, host>>

\* the device completes the command it is executing
DeviceEnd ==
    /\ running # <<>>
    /\ running' = <<>>
    /\ log' = Append(log, <<"end", running[1], running[2]>>)
    /\ UNCHANGED <<queueFrame, pc, pass, host, cq>>

\* the blocking transfer, or clFinish, returns: the queue has drained
Return ==
    /\ host = "blocked"
    /\ cq = <<>> /\ running = <<>>
    /\ host' = "ready"
    /\ pc' = StepAfter(pc)
    /\ UNCHANGED <<queueFrame, pass, cq, running, log>>

\* :124-141 the host computes bt, pg and go
ComputeOffsets ==
    /\ host = "ready" /\ pc = "offsets"
    /\ log' = log \o <<<<"start", "offsets", pass>>, <<"end", "offsets", pass>>>>
    /\ pc' = "upload_pg"
    /\ UNCHANGED <<queueFrame, pass, host, cq, running>>

\* :160 std::swap(buf_in, buf_out), then ++pass
SwapStep ==
    /\ host = "ready" /\ pc = "swap"
    /\ log' = log \o <<<<"start", "swap", pass>>, <<"end", "swap", pass>>>>
    /\ pass' = pass + 1
    /\ pc' = LoopHead(pass + 1)
    /\ UNCHANGED <<queueFrame, host, cq, running>>

NextQueue ==
    \/ Enqueue
    \/ DeviceStart
    \/ DeviceEnd
    \/ Return
    \/ ComputeOffsets
    \/ SwapStep

SpecQueue == InitQueue /\ [][NextQueue]_vars

\* the k-th event of a strictly serial run
SerialEvent(k) ==
    <<IF (k - 1) % 2 = 0 THEN "start" ELSE "end",
      Steps[((k - 1) % (2 * Len(Steps))) \div 2 + 1],
      (k - 1) \div (2 * Len(Steps))>>

(***************************************************************************)
(* C11.  Within a pass the steps happen in the order reset, histogram,     *)
(* histogram read-back, host offsets, upload of pg and go, scatter, swap,  *)
(* each starting only after the one before it has ended; the histogram of  *)
(* pass p+1 never starts before the scatter of pass p has ended.           *)
(***************************************************************************)
C11_StrictSerialisation ==
    /\ \A k \in 1 .. Len(log) : log[k] = SerialEvent(k)
    /\ \A k \in 1 .. Len(log) :
          (log[k][1] = "start" /\ log[k][2] = "hist" /\ log[k][3] > 0) =>
              \E j \in 1 .. k - 1 : log[j] = <<"end", "scatter", log[k][3] - 1>>
    /\ (running # <<>> \/ cq # <<>>) => host = "blocked"

\* the histogram of the second pass is running
C11_Witness ==
    /\ running = <<"hist", 1>>
    /\ \E j \in 1 .. Len(log) : log[j] = <<"end", "scatter", 0>>

====
